---------------------------- MODULE Spec2Model ----------------------------
(***************************************************************************)
(* SkillSync internship recommender (src/app.py).                          *)
(*                                                                         *)
(* The catalog `df` is read once from internships.csv (line 73) and every  *)
(* press of the Recommend button runs recommend_internships (lines         *)
(* 149-179) on it: copy, strip the column names, four str.contains         *)
(* filters, the empty check, TF-IDF scoring, sort_values, head.            *)
(*                                                                         *)
(* Text is a sequence of one-character strings.  Numbers that pandas and   *)
(* scikit-learn hold as floats are held in thousandths (fixed point).      *)
(* The language is English, for which translate_ui, translate_to_english   *)
(* and translate_output return their argument (lines 82, 90, 98).  The     *)
(* cards drawn for a non-empty result (lines 196-239) are not modelled.    *)
(***************************************************************************)
EXTENDS Integers, Sequences, FiniteSets, TLC

VARIABLES csv, df, call, page

vars == <<csv, df, call, page>>

---------------------------------------------------------------------------
(* Bounds *)

\* Largest number of data rows of internships.csv that is explored.
MaxRows == 2

---------------------------------------------------------------------------
(* Characters and text *)

Whitespace == {" "}

Digits == {"0", "1", "2", "3", "4", "5", "6", "7", "8", "9"}

Letters == {"a", "b", "c", "e", "f", "i", "k", "l", "n", "o", "p", "q", "s",
            "x", "y", "K", "O"}

\* \w of the regular expressions: letters and digits (no underscore is used)
WordChars == Letters \cup Digits

\* str.lower / re.IGNORECASE folding of one character
Lower(c) ==
    CASE c = "K" -> "k"
      [] c = "O" -> "o"
      [] OTHER -> c

\* ord(c) for the characters that are compared by sort_values on text columns
Code(c) ==
    CASE c = " " -> 32
      [] c = "," -> 44
      [] c = "." -> 46
      [] c = "0" -> 48
      [] c = "1" -> 49
      [] c = "2" -> 50
      [] c = "3" -> 51
      [] c = "4" -> 52
      [] c = "5" -> 53
      [] c = "6" -> 54
      [] c = "7" -> 55
      [] c = "8" -> 56
      [] c = "9" -> 57
      [] c = "K" -> 75
      [] c = "O" -> 79
      [] c = "a" -> 97
      [] c = "b" -> 98
      [] c = "c" -> 99
      [] c = "f" -> 102
      [] c = "k" -> 107
      [] c = "n" -> 110
      [] c = "o" -> 111
      [] c = "p" -> 112
      [] c = "q" -> 113
      [] c = "s" -> 115
      [] c = "x" -> 120
      [] c = "y" -> 121

DigitVal(c) == Code(c) - 48

RECURSIVE lstrip(_)
lstrip(s) ==
    IF s # <<>> /\ Head(s) \in Whitespace THEN lstrip(Tail(s)) ELSE s

RECURSIVE rstrip(_)
rstrip(s) ==
    IF s # <<>> /\ s[Len(s)] \in Whitespace
    THEN rstrip(SubSeq(s, 1, Len(s) - 1))
    ELSE s

\* str.strip(): leading and trailing whitespace removed
strip(s) == rstrip(lstrip(s))

\* Python's string order (lexicographic by code point)
RECURSIVE StrLess(_, _)
StrLess(a, b) ==
    IF b = <<>> THEN FALSE
    ELSE IF a = <<>> THEN TRUE
    ELSE IF Head(a) = Head(b) THEN StrLess(Tail(a), Tail(b))
    ELSE Code(Head(a)) < Code(Head(b))

IsDigits(s) == s # <<>> /\ \A i \in 1..Len(s) : s[i] \in Digits

RECURSIVE ParseInt(_)
ParseInt(s) ==
    IF s = <<>> THEN 0
    ELSE 10 * ParseInt(SubSeq(s, 1, Len(s) - 1)) + DigitVal(s[Len(s)])

---------------------------------------------------------------------------
(* Tables: the CSV file and the pandas DataFrame *)

\* A column name is text whose body is kept as one piece: <<" ", "State">>
\* is the header cell " State".
COL_SECTOR == <<"Sector/Industry">>
COL_STATE == <<"State">>
COL_DISTRICT == <<"District">>
COL_MODE == <<"Internship Mode">>
COL_SKILLS == <<"Required Skills">>
COL_OPPORTUNITIES == <<"Opportunities">>
COL_MATCH_SCORE == <<"Match Score">>

\* The sentinel of the select boxes (lines 120, 126, 134, 142)
ANY == <<"A", "n", "y">>

NaN == [t |-> "nan"]
Str(s) == [t |-> "str", s |-> s]
Num(v) == [t |-> "num", v |-> v]

\* pd.DataFrame(): no columns, no rows (line 166)
EmptyFrame == [columns |-> <<>>, dtypes |-> <<>>, rows |-> <<>>]

\* Column type inferred by pd.read_csv from the raw cells of one column:
\* a header-only file gives object columns, an all-blank column float64,
\* digits only int64 (float64 when a cell is blank), anything else object.
infer_dtype(texts) ==
    IF texts = <<>> THEN "object"
    ELSE IF \A i \in 1..Len(texts) : texts[i] = <<>> THEN "float64"
    ELSE IF \A i \in 1..Len(texts) : texts[i] = <<>> \/ IsDigits(texts[i])
         THEN IF \E i \in 1..Len(texts) : texts[i] = <<>>
              THEN "float64" ELSE "int64"
    ELSE "object"

\* One parsed cell: blank is NaN, a numeric column holds numbers, an object
\* column holds the text as written.
parse_cell(text, dtype) ==
    IF text = <<>> THEN NaN
    ELSE IF dtype = "object" THEN Str(text)
    ELSE Num(ParseInt(text))

\* pd.read_csv(CSV_FILE) (line 73) on a file with the given header and records
read_csv(raw) ==
    LET n == Len(raw.records)
        m == Len(raw.header)
        dts == [j \in 1..m |->
                  infer_dtype([i \in 1..n |-> raw.records[i][j]])]
    IN  [columns |-> raw.header,
         dtypes  |-> dts,
         rows    |-> [i \in 1..n |->
                        [j \in 1..m |-> parse_cell(raw.records[i][j], dts[j])]]]

\* Position of a column label, 0 when the frame has no such column
colindex(frame, name) ==
    IF \E j \in 1..Len(frame.columns) : frame.columns[j] = name
    THEN CHOOSE j \in 1..Len(frame.columns) :
            /\ frame.columns[j] = name
            /\ \A k \in 1..(j - 1) : frame.columns[k] # name
    ELSE 0

\* df_copy.columns = df_copy.columns.str.strip() (line 153)
strip_columns(frame) ==
    [frame EXCEPT !.columns = [j \in 1..Len(frame.columns) |->
                                  strip(frame.columns[j])]]

\* The empty check left out: the subset is never taken to be empty
empty_never(frame) == FALSE

\* df_copy.empty (line 165): some axis has length 0
empty(frame) == Len(frame.columns) = 0 \/ Len(frame.rows) = 0

---------------------------------------------------------------------------
(* Filters: Series.str.contains(pat, case=False, na=False), lines 156-163 *)

\* The pattern is a regular expression (regex=True is the default): "." stands
\* for any character, every other character of the alphabet for itself, and
\* case=False compares with case folded.
re_match_at(pat, s, i) ==
    \A j \in 1..Len(pat) :
        pat[j] = "." \/ Lower(pat[j]) = Lower(s[i + j - 1])

re_search(pat, s) ==
    \E i \in 1..(Len(s) - Len(pat) + 1) : re_match_at(pat, s, i)

str_contains(cell, pat) ==
    IF cell.t = "str" THEN re_search(pat, cell.s) ELSE FALSE

\* One `if value != "Any": df_copy = df_copy[...]` statement.  st is the
\* function's progress: the frame so far, and the exception if one was raised.
\* A missing label raises KeyError, the .str accessor of a non-object column
\* raises AttributeError.
filter_step(st, name, value, line) ==
    IF st.status # "ok" \/ value = ANY THEN st
    ELSE LET j == colindex(st.frame, name) IN
         IF j = 0 THEN [st EXCEPT !.status = "KeyError", !.line = line]
         ELSE IF st.frame.dtypes[j] # "object"
              THEN [st EXCEPT !.status = "AttributeError", !.line = line]
         ELSE [st EXCEPT !.frame.rows =
                  SelectSeq(st.frame.rows, LAMBDA r : str_contains(r[j], value))]

---------------------------------------------------------------------------
(* TfidfVectorizer and cosine_similarity, lines 170-173 *)

\* str(n) of a non-negative integer
RECURSIVE IntToStr(_)
IntToStr(n) ==
    LET d == CHOOSE c \in Digits : DigitVal(c) = n % 10 IN
    IF n < 10 THEN <<d>> ELSE Append(IntToStr(n \div 10), d)

\* Series.fillna("").astype(str) on one cell (line 171)
fillna_astype_str(cell) ==
    CASE cell.t = "nan" -> <<>>
      [] cell.t = "str" -> cell.s
      [] cell.t = "num" -> IntToStr(cell.v)

\* The default analyzer: lowercase, then token_pattern (?u)\b\w\w+\b, that is
\* the maximal runs of word characters that are at least two long.
RECURSIVE tokens_from(_, _, _)
tokens_from(s, cur, acc) ==
    LET flush == IF Len(cur) >= 2 THEN Append(acc, cur) ELSE acc IN
    IF s = <<>> THEN flush
    ELSE IF Head(s) \in WordChars
         THEN tokens_from(Tail(s), Append(cur, Lower(Head(s))), acc)
         ELSE tokens_from(Tail(s), <<>>, flush)

tokenize(doc) == tokens_from(doc, <<>>, <<>>)

\* Number of occurrences of term t in a token sequence
tf(t, toks) == Cardinality({i \in 1..Len(toks) : toks[i] = t})

\* 1000 * ln(k), k = 1..8
LnMilli == <<0, 693, 1099, 1386, 1609, 1792, 1946, 2079>>

\* smooth_idf: idf(t) = ln((1 + n) / (1 + df(t))) + 1, in thousandths
idf(n, dfreq) == LnMilli[1 + n] - LnMilli[1 + dfreq] + 1000

RECURSIVE isqrt_in(_, _, _)
isqrt_in(n, lo, hi) ==
    IF lo >= hi THEN lo
    ELSE LET mid == (lo + hi + 1) \div 2 IN
         IF mid * mid <= n THEN isqrt_in(n, mid, hi)
         ELSE isqrt_in(n, lo, mid - 1)

\* floor of the square root
isqrt(n) == isqrt_in(n, 0, 46340)

RECURSIVE SumOver(_, _)
SumOver(S, f) ==
    IF S = {} THEN 0
    ELSE LET x == CHOOSE y \in S : TRUE IN f[x] + SumOver(S \ {x}, f)

\* fit: the vocabulary and document frequencies of the corpus
vocabulary(docs) ==
    UNION {{tokenize(docs[i])[k] : k \in 1..Len(tokenize(docs[i]))} :
              i \in 1..Len(docs)}

doc_freq(t, docs) ==
    Cardinality({i \in 1..Len(docs) : tf(t, tokenize(docs[i])) > 0})

\* transform: the l2-normalised tf-idf row of one text over the fitted
\* vocabulary, in thousandths (terms outside the vocabulary are ignored, a
\* row without known terms is all zero)
tfidf_row(text, docs) ==
    LET V == vocabulary(docs)
        toks == tokenize(text)
        w == [t \in V |-> tf(t, toks) * idf(Len(docs), doc_freq(t, docs))]
        norm == isqrt(SumOver(V, [t \in V |-> w[t] * w[t]]))
    IN  [t \in V |-> IF norm = 0 THEN 0 ELSE (1000 * w[t]) \div norm]

\* cosine_similarity(user_vector, skill_matrix).flatten(): both sides are
\* already unit rows, so this is their dot product (0 for a zero row)
cosine_similarity(user_skills, docs) ==
    LET V == vocabulary(docs)
        u == tfidf_row(user_skills, docs)
    IN  [i \in 1..Len(docs) |->
            LET d == tfidf_row(docs[i], docs) IN
            SumOver(V, [t \in V |-> u[t] * d[t]]) \div 1000]

---------------------------------------------------------------------------
(* DataFrame.sort_values(..., ascending=False) and DataFrame.head *)

\* a comes strictly before b in a descending sort of one column; missing
\* values go last (na_position="last"), object columns compare as text
key_before(a, b, dtype) ==
    IF a.t = "nan" THEN FALSE
    ELSE IF b.t = "nan" THEN TRUE
    ELSE IF dtype = "object" THEN StrLess(b.s, a.s)
    ELSE a.v > b.v

RECURSIVE row_before(_, _, _, _)
row_before(r1, r2, idx, dtypes) ==
    IF idx = <<>> THEN FALSE
    ELSE LET j == Head(idx) IN
         IF key_before(r1[j], r2[j], dtypes[j]) THEN TRUE
         ELSE IF key_before(r2[j], r1[j], dtypes[j]) THEN FALSE
         ELSE row_before(r1, r2, Tail(idx), dtypes)

\* r placed in front of the first row it strictly precedes: rows with equal
\* keys keep their order of arrival
RECURSIVE insert_row(_, _, _, _)
insert_row(r, sorted, idx, dtypes) ==
    IF sorted = <<>> THEN <<r>>
    ELSE IF row_before(r, Head(sorted), idx, dtypes) THEN <<r>> \o sorted
    ELSE <<Head(sorted)>> \o insert_row(r, Tail(sorted), idx, dtypes)

RECURSIVE sort_rows(_, _, _)
sort_rows(rows, idx, dtypes) ==
    IF rows = <<>> THEN <<>>
    ELSE insert_row(rows[Len(rows)],
                    sort_rows(SubSeq(rows, 1, Len(rows) - 1), idx, dtypes),
                    idx, dtypes)

\* sort_values(by=by, ascending=False): KeyError when a label of `by` is not a
\* column, otherwise the rows in descending order of the keys
sort_values(st, by, line) ==
    LET idx == [k \in 1..Len(by) |-> colindex(st.frame, by[k])] IN
    IF \E k \in 1..Len(by) : idx[k] = 0
    THEN [st EXCEPT !.status = "KeyError", !.line = line]
    ELSE [st EXCEPT !.frame.rows = sort_rows(st.frame.rows, idx, st.frame.dtypes),
                    !.line = line]

\* head taking one row too many
head_one_more(frame, n) ==
    LET len == Len(frame.rows)
        k == IF n >= 0 THEN (IF n + 1 < len THEN n + 1 ELSE len)
             ELSE (IF len + n + 1 > 0 THEN len + n + 1 ELSE 0)
    IN  [frame EXCEPT !.rows = SubSeq(frame.rows, 1, k)]

\* DataFrame.head(n): the first n rows, or all but the last -n when n < 0
head(frame, n) ==
    LET len == Len(frame.rows)
        k == IF n >= 0 THEN (IF n < len THEN n ELSE len)
             ELSE (IF len + n > 0 THEN len + n ELSE 0)
    IN  [frame EXCEPT !.rows = SubSeq(frame.rows, 1, k)]

\* df_copy["Match Score"] = similarity_scores (line 174)
assign_match_score(frame, scores) ==
    [columns |-> Append(frame.columns, COL_MATCH_SCORE),
     dtypes  |-> Append(frame.dtypes, "float64"),
     rows    |-> [i \in 1..Len(frame.rows) |->
                     Append(frame.rows[i], Num(scores[i]))]]

---------------------------------------------------------------------------
(* recommend_internships, lines 149-179 *)

\* The function working on df itself (df_copy = df): the renamed columns
\* show in the module-level df
global_after_aliased(d, stripped) == stripped

\* The module-level df after a call: the function works on df.copy()
\* (line 150), so renaming the columns of the copy leaves df as it was.
global_after(d, stripped) == d

\* Lines 168-177 on a non-empty subset
rank(st, user_skills) ==
    IF strip(user_skills) # <<>>
    THEN LET j == colindex(st.frame, COL_SKILLS) IN
         IF j = 0 THEN [st EXCEPT !.status = "KeyError", !.line = 171]
         ELSE LET docs == [i \in 1..Len(st.frame.rows) |->
                              fillna_astype_str(st.frame.rows[i][j])]
                  fit == [st EXCEPT !.vectorized = TRUE, !.ndocs = Len(docs)]
              IN  IF vocabulary(docs) = {}
                  THEN [fit EXCEPT !.status = "ValueError", !.line = 171]
                  ELSE sort_values(
                         [fit EXCEPT !.frame = assign_match_score(
                              st.frame, cosine_similarity(user_skills, docs))],
                         <<COL_MATCH_SCORE, COL_OPPORTUNITIES>>, 175)
    ELSE sort_values(st, <<COL_OPPORTUNITIES>>, 177)

\* The whole function.  The result records how the call ended (status, and
\* the line that returned or raised), the locals it went through (subset:
\* df_copy at line 165; sorted: df_copy after sort_values), whether the
\* vectorizer was fitted and on how many documents, the returned frame, and
\* the module-level df when the call is over.
recommend_internships(d, user_skills, sector, state, district, mode, top_n) ==
    LET stripped == strip_columns(d)
        st0 == [frame |-> stripped, status |-> "ok", line |-> 153,
                vectorized |-> FALSE, ndocs |-> 0]
        st1 == filter_step(st0, COL_SECTOR, sector, 157)
        st2 == filter_step(st1, COL_STATE, state, 159)
        st3 == filter_step(st2, COL_DISTRICT, district, 161)
        st4 == filter_step(st3, COL_MODE, mode, 163)
        out == [status |-> st4.status, line |-> st4.line,
                subset |-> EmptyFrame, sorted |-> EmptyFrame,
                vectorized |-> FALSE, ndocs |-> 0, ret |-> EmptyFrame,
                global |-> global_after(d, stripped)]
    IN  IF st4.status # "ok" THEN out
        ELSE IF empty(st4.frame)
             THEN [out EXCEPT !.status = "returned", !.line = 166,
                              !.subset = st4.frame]
        ELSE LET st5 == rank(st4, user_skills) IN
             IF st5.status # "ok"
             THEN [out EXCEPT !.status = st5.status, !.line = st5.line,
                              !.subset = st4.frame,
                              !.vectorized = st5.vectorized,
                              !.ndocs = st5.ndocs]
             ELSE [out EXCEPT !.status = "returned", !.line = 179,
                              !.subset = st4.frame, !.sorted = st5.frame,
                              !.vectorized = st5.vectorized,
                              !.ndocs = st5.ndocs,
                              !.ret = head(st5.frame, top_n)]

---------------------------------------------------------------------------
(* Inputs that are explored *)

ONLINE == <<"O", "n", "l", "i", "n", "e">>
OFFLINE == <<"O", "f", "f", "l", "i", "n", "e">>

Header == <<COL_SECTOR, COL_STATE, COL_DISTRICT, COL_MODE, COL_SKILLS,
            COL_OPPORTUNITIES>>

\* The same file without the optional "Internship Mode" column
HeaderNoMode == <<COL_SECTOR, COL_STATE, COL_DISTRICT, COL_SKILLS,
                  COL_OPPORTUNITIES>>

\* ... without the optional "Opportunities" column
HeaderNoOpportunities == <<COL_SECTOR, COL_STATE, COL_DISTRICT, COL_MODE,
                           COL_SKILLS>>

\* ... with a trailing blank after the last header cell
HeaderPadded == <<COL_SECTOR, COL_STATE, COL_DISTRICT, COL_MODE, COL_SKILLS,
                  COL_OPPORTUNITIES \o <<" ">> >>

\* One line of the file, by logical field; the cells are raw text
FilterLines ==
    [sector   : {<<"a", ".", "b">>, <<"a", "x", "b">>},
     state    : {<<"K", "a">>, <<>>},
     district : {<<"a", "b">>, <<"b">>},
     mode     : {ONLINE, <<"o", "f", "f", "l", "i", "n", "e">>},
     skills   : {<<"p", "y">>},
     opps     : {<<"2">>}]

RankLines ==
    [sector   : {<<"a", ".", "b">>},
     state    : {<<"K", "a">>},
     district : {<<"b">>},
     mode     : {ONLINE},
     skills   : {<<>>, <<"p", "y">>, <<"p", "y", ",", "s", "q">>},
     opps     : {<<>>, <<"2">>, <<"1", "0">>, <<"x">>}]

field_of(ln, name) ==
    LET c == strip(name) IN
    CASE c = COL_SECTOR -> ln.sector
      [] c = COL_STATE -> ln.state
      [] c = COL_DISTRICT -> ln.district
      [] c = COL_MODE -> ln.mode
      [] c = COL_SKILLS -> ln.skills
      [] c = COL_OPPORTUNITIES -> ln.opps

\* The file internships.csv with the given header and lines
csv_file(header, lines) ==
    [header  |-> header,
     records |-> [i \in 1..Len(lines) |->
                    [j \in 1..Len(header) |-> field_of(lines[i], header[j])]]]

SeqUpTo(S, n) == UNION {[1..k -> S] : k \in 0..n}

Query(skills, sector, state, district, mode, top_n) ==
    [skills |-> skills, sector |-> sector, state |-> state,
     district |-> district, mode |-> mode, top_n |-> top_n]

FilterQueries ==
    {Query(sk, se, st, di, mo, 5) :
        sk \in {<<>>, <<"p", "y">>},
        se \in {ANY, <<"a", ".", "b">>},
        st \in {ANY, <<"K", "a">>},
        di \in {ANY, <<"b">>},
        mo \in {ANY, OFFLINE}}

RankQueries ==
    {Query(sk, ANY, ANY, ANY, ANY, n) :
        sk \in {<<>>, <<" ">>, <<"p", "y">>, <<"c">>},
        n \in {-1, 1, 5}}

---------------------------------------------------------------------------
(* The script *)

NoCall == [status |-> "none"]
NoPage == [kind |-> "none"]

\* Lines 71-76: the catalog is read from the file; nothing has been asked yet
Load(header, lines) ==
    /\ csv = csv_file(header, lines)
    /\ df = read_csv(csv)
    /\ call = NoCall
    /\ page = NoPage

InitFilter ==
    \E header \in {Header, HeaderNoMode}, lines \in SeqUpTo(FilterLines, MaxRows) :
        Load(header, lines)

InitRank ==
    \E header \in {Header, HeaderNoOpportunities, HeaderPadded},
       lines \in SeqUpTo(RankLines, MaxRows) :
        Load(header, lines)

\* Values of one column of df, missing ones dropped (Series.dropna().unique())
column_values(d, name, rows) ==
    LET j == colindex(d, name) IN
    {rows[i][j].s : i \in {k \in 1..Len(rows) : rows[k][j].t = "str"}}

\* The choices of the select boxes, lines 118-144
sector_options == {ANY} \cup column_values(df, COL_SECTOR, df.rows)
state_options == {ANY} \cup column_values(df, COL_STATE, df.rows)
district_options(state) ==
    IF state # ANY
    THEN {ANY} \cup column_values(df, COL_DISTRICT,
            SelectSeq(df.rows,
                LAMBDA r : r[colindex(df, COL_STATE)] = Str(state)))
    ELSE {ANY}
mode_options == {ANY, ONLINE, OFFLINE}

\* The state of a finished call: its arguments and how it went
call_record(q, r) ==
    [args |-> q, status |-> r.status, line |-> r.line, subset |-> r.subset,
     sorted |-> r.sorted, vectorized |-> r.vectorized, ndocs |-> r.ndocs,
     ret |-> r.ret]

\* A call of recommend_internships with arguments q
Recommend(q) ==
    /\ call = NoCall /\ page = NoPage
    /\ \E r \in {recommend_internships(df, q.skills, q.sector, q.state,
                                       q.district, q.mode, q.top_n)} :
           /\ call' = call_record(q, r)
           /\ df' = r.global
    /\ UNCHANGED <<csv, page>>

\* The Recommend button, lines 185-196: the sidebar holds q
Button(q) ==
    /\ call = NoCall /\ page = NoPage
    /\ q.top_n = 5
    /\ q.sector \in sector_options
    /\ q.state \in state_options
    /\ q.district \in district_options(q.state)
    /\ q.mode \in mode_options
    /\ IF strip(q.skills) = <<>>
       THEN /\ page' = [kind |-> "warning_skills", args |-> q]
            /\ UNCHANGED <<df, call>>
       ELSE \E r \in {recommend_internships(df, q.skills, q.sector, q.state,
                                            q.district, q.mode, 5)} :
                /\ call' = call_record(q, r)
                /\ df' = r.global
                /\ page' = [kind |-> IF r.status # "returned" THEN "exception"
                                     ELSE IF empty(r.ret) THEN "warning_empty"
                                     ELSE "cards",
                            args |-> q]
    /\ UNCHANGED csv

\* The next interaction reruns the script from the top: the file is read
\* again (line 73) and the previous run's results are gone
Rerun ==
    /\ call # NoCall \/ page # NoPage
    /\ df' = read_csv(csv)
    /\ call' = NoCall
    /\ page' = NoPage
    /\ UNCHANGED csv

NextFilter ==
    \/ \E q \in FilterQueries : Recommend(q)
    \/ \E q \in FilterQueries : Button(q)
    \/ Rerun

NextRank ==
    \/ \E q \in RankQueries : Recommend(q)
    \/ \E q \in RankQueries : Button(q)
    \/ Rerun

SpecFilter == InitFilter /\ [][NextFilter]_vars

SpecRank == InitRank /\ [][NextRank]_vars

---------------------------------------------------------------------------
(* What the specification says about a posting *)

Called == call.status # "none"

Returned == call.status = "returned"

\* The filters ran to the end: the call got to the empty check of line 165
Filtered == Called /\ call.line >= 165

IsBlank(text) == \A i \in 1..Len(text) : text[i] \in Whitespace

\* opportunities of the data model: an integer >= 0, 0 when the column is
\* absent or the value is missing or not a number
opportunities(frame, row) ==
    LET j == colindex(frame, COL_OPPORTUNITIES) IN
    IF j = 0 THEN 0
    ELSE IF row[j].t = "num" THEN row[j].v
    ELSE IF row[j].t = "str" /\ IsDigits(row[j].s) THEN ParseInt(row[j].s)
    ELSE 0

HasScore(frame) == colindex(frame, COL_MATCH_SCORE) # 0

match_score(frame, row) == row[colindex(frame, COL_MATCH_SCORE)].v

\* text occurs in s as a substring, case ignored (no character is special)
SubstringCI(text, s) ==
    \E i \in 1..(Len(s) - Len(text) + 1) :
        \A j \in 1..Len(text) : Lower(text[j]) = Lower(s[i + j - 1])

\* A row of the catalog passes one filter field of the query
PassesField(row, name, value) ==
    \/ value = ANY
    \/ LET j == colindex(strip_columns(df), name) IN
       /\ j # 0
       /\ row[j].t = "str"
       /\ SubstringCI(value, row[j].s)

Passes(row, q) ==
    /\ PassesField(row, COL_SECTOR, q.sector)
    /\ PassesField(row, COL_STATE, q.state)
    /\ PassesField(row, COL_DISTRICT, q.district)
    /\ PassesField(row, COL_MODE, q.mode)

\* Rows in descending order of opportunities
ByOpportunities(frame) ==
    \A i, k \in 1..Len(frame.rows) :
        i < k => opportunities(frame, frame.rows[i])
                    >= opportunities(frame, frame.rows[k])

\* Rows in descending order of (match_score, opportunities)
ByScoreThenOpportunities(frame) ==
    \A i, k \in 1..Len(frame.rows) :
        i < k =>
            \/ match_score(frame, frame.rows[i]) > match_score(frame, frame.rows[k])
            \/ /\ match_score(frame, frame.rows[i]) = match_score(frame, frame.rows[k])
               /\ opportunities(frame, frame.rows[i])
                    >= opportunities(frame, frame.rows[k])

IsPrefix(a, b) == Len(a) <= Len(b) /\ a = SubSeq(b, 1, Len(a))

Min(a, b) == IF a < b THEN a ELSE b

Max(a, b) == IF a > b THEN a ELSE b

---------------------------------------------------------------------------
(* Claims *)

\* C1: for a skill text that is not blank, the returned postings are in
\* descending order of (match_score, opportunities): of two returned
\* postings the earlier has the higher score, or the same score and at least
\* as many opportunities.
C1_OrderedByScoreThenOpportunities ==
    (Returned /\ ~IsBlank(call.args.skills) /\ HasScore(call.ret))
        => ByScoreThenOpportunities(call.ret)

\* C2: the subset that is ranked is exactly the catalog rows that pass every
\* filter field that is not "Any", a field passing when it is a
\* case-insensitive substring of the row's cell (a missing cell never
\* passes); with every field "Any" it is the whole catalog.
C2_SubsetIsSubstringMatches ==
    Filtered =>
        call.subset.rows = SelectSeq(df.rows, LAMBDA r : Passes(r, call.args))

\* C3 as stated: for every integer top_n the result has at most top_n
\* postings and is a leading segment of the sorted filtered subset.
C3_AtMostTopN ==
    Returned =>
        /\ Len(call.ret.rows) <= call.args.top_n
        /\ IsPrefix(call.ret.rows, call.sorted.rows)

\* C3 as amended: for every integer top_n the result is a leading segment of
\* the sorted filtered subset, in the same order; it has at most top_n
\* postings when top_n >= 0, and all but the last -top_n when top_n < 0.
C3_LeadingSegment ==
    Returned =>
        /\ IsPrefix(call.ret.rows, call.sorted.rows)
        /\ call.args.top_n >= 0 =>
              Len(call.ret.rows) = Min(call.args.top_n, Len(call.sorted.rows))
        /\ call.args.top_n < 0 =>
              Len(call.ret.rows) = Max(0, Len(call.sorted.rows) + call.args.top_n)

\* C3 witness: a call with top_n = 1 on a subset of two rows returned one row
C3_Witness ==
    /\ Returned
    /\ call.args.top_n = 1
    /\ Len(call.sorted.rows) = 2
    /\ Len(call.ret.rows) = 1

\* C4: with an empty skill text (and top_n >= 0) the call does no scoring,
\* orders the filtered subset by opportunities descending and returns its
\* first top_n postings, so that the result has min(top_n, size of the
\* subset) postings.
C4_EmptySkillsPopularityOrder ==
    (Filtered /\ call.args.skills = <<>> /\ call.args.top_n >= 0) =>
        /\ Returned
        /\ ~call.vectorized
        /\ ~HasScore(call.ret)
        /\ ByOpportunities(call.ret)
        /\ Len(call.ret.rows) = Min(call.args.top_n, Len(call.subset.rows))

\* Some filter field of the query names a column the table does not have
FilterColumnAbsent(q) ==
    \E f \in {<<COL_SECTOR, q.sector>>, <<COL_STATE, q.state>>,
              <<COL_DISTRICT, q.district>>, <<COL_MODE, q.mode>>} :
        f[2] # ANY /\ colindex(strip_columns(df), f[1]) = 0

\* C5: when an active filter refers to a column the table does not have, or
\* when no row passes all active filters, the call returns an empty result
\* and does not end in an error.
C5_AbsentColumnGivesEmpty ==
    (Called /\ (\/ FilterColumnAbsent(call.args)
                \/ \A i \in 1..Len(df.rows) : ~Passes(df.rows[i], call.args)))
        => (Returned /\ call.ret.rows = <<>>)

\* C6: once the subset is not empty the call returns whatever the popularity
\* values are: with the Opportunities column absent, or a value missing or
\* not a number, that value counts as 0 in the order of the result.
C6_PopularityNeverRaises ==
    (Called /\ call.line \in {175, 177, 179}) =>
        /\ Returned
        /\ IF HasScore(call.ret) THEN ByScoreThenOpportunities(call.ret)
           ELSE ByOpportunities(call.ret)

\* Every row of the frame has no required skills
NoSkillsAnywhere(frame) ==
    \A i \in 1..Len(frame.rows) :
        fillna_astype_str(frame.rows[i][colindex(frame, COL_SKILLS)]) = <<>>

\* C7: with a skill text that is not blank and a non-empty subset whose rows
\* all have empty or missing required skills, the call does not fail: every
\* posting has match_score 0 and the result is in descending order of
\* opportunities.
C7_EmptyVocabularyScoresZero ==
    (Filtered /\ ~IsBlank(call.args.skills) /\ call.subset.rows # <<>>
        /\ NoSkillsAnywhere(call.subset)) =>
        /\ Returned
        /\ HasScore(call.ret)
        /\ \A i \in 1..Len(call.ret.rows) :
               match_score(call.ret, call.ret.rows[i]) = 0
        /\ ByOpportunities(call.ret)

\* C8: the vectorizer is fitted only on a subset of at least one row; when
\* the filtered subset has no rows the call returns an empty result and the
\* vectorizer is not invoked, whatever the skill text.
C8_NoFitOnEmptySubset ==
    Called =>
        /\ call.vectorized => call.ndocs >= 1
        /\ (Filtered /\ call.subset.rows = <<>>) =>
              /\ Returned
              /\ call.ret = EmptyFrame
              /\ ~call.vectorized

\* C8 witness: the filters removed every row of a catalog that has rows, the
\* skill text is not blank, and the call returned from line 166
C8_Witness ==
    /\ Returned
    /\ call.line = 166
    /\ df.rows # <<>>
    /\ ~IsBlank(call.args.skills)

\* C9: a call leaves the shared catalog as it was loaded (same rows, same
\* column names, no Match Score column), so that the same call made again
\* returns the same ordered result.
C9_CatalogUnchanged ==
    /\ df = read_csv(csv)
    /\ colindex(df, COL_MATCH_SCORE) = 0
    /\ Called =>
          \A again \in {recommend_internships(df, call.args.skills,
                            call.args.sector, call.args.state,
                            call.args.district, call.args.mode,
                            call.args.top_n)} :
              again.status = call.status /\ again.ret = call.ret

\* C9 witness: a scored call returned from a catalog whose header needed
\* stripping, so the copy has other column names than the catalog and a
\* Match Score column
C9_Witness ==
    /\ Returned
    /\ HasScore(call.ret)
    /\ strip_columns(df) # df

\* C10: one policy for a blank skill text: what the Recommend button does
\* with such a query is what recommend_internships does with it.  The button
\* rejected the query before matching, so the function produces no postings
\* for it either.
C10_OneEmptySkillPolicy ==
    page.kind = "warning_skills" =>
        \A r \in {recommend_internships(df, page.args.skills,
                       page.args.sector, page.args.state, page.args.district,
                       page.args.mode, page.args.top_n)} :
            ~(r.status = "returned" /\ r.ret.rows # <<>>)

=============================================================================
